---- MODULE Spec2Model ----
(***************************************************************************)
(* Model of the bootz bootstrap server.                                    *)
(*                                                                         *)
(* The Service handlers are written against the EntityManager interface    *)
(* and server.go composes the Service with an entity manager; the model    *)
(* composes each handler iteration (GetBootstrapData and the two earlier   *)
(* GetBootstrapRequest iterations, ReportStatus) with each entity manager  *)
(* of the repository (the EM stubs, the InMemoryEntityManager iterations)  *)
(* and with an injected provider standing for any other implementation of  *)
(* the interface, whose answers are inputs of the call.                    *)
(*                                                                         *)
(* A handler is one action: it draws a request and the collaborators'      *)
(* answers, runs the handler to its return and records the outcome and     *)
(* the collaborator calls it made. Return hands the outcome to the caller  *)
(* and leaves the server waiting for the next call.                        *)
(***************************************************************************)
EXTENDS Naturals, Sequences, FiniteSets, TLC

VARIABLES em, op, req, io, res

vars == <<em, op, req, io, res>>

\* Longest control-card list a request carries.
MaxCards == 2

-----------------------------------------------------------------------------
(* Values *)

\* Chassis serial numbers a descriptor may carry ("" is the unset field).
ChassisSerials == {"", "456", "123"}

\* Control-card serial numbers.
CardSerials == {"123A", "123B"}

\* A string that is not valid UTF-8 ("\xff"): a direct caller or an entity
\* manager can put one in a string field.
InvalidUTF8 == "<0xff>"

Nonces == {"", "abc123", InvalidUTF8}

\* The nil *ControlCard passed for the fixed-chassis fetch, and the nil
\* activeControlCard.
NilCard == "<nil>"

FetchKeys == CardSerials \cup {NilCard}

SecureOnly == "SecureOnly"

Unspecified == "Unspecified"

\* A nil *ChassisEntity / *bpb.Chassis.
NilChassis == [id |-> "<nil>", bootMode |-> Unspecified]

fffChassis == [id |-> "fff", bootMode |-> SecureOnly]

modularChassis == [id |-> "modular", bootMode |-> SecureOnly]

defaultChassis == [id |-> "default", bootMode |-> SecureOnly]

\* A nil *BootstrapDataResponse.
NilResponse == [isNil |-> TRUE, serialNum |-> ""]

CardSeqs == UNION {[1..n -> CardSerials] : n \in 0..MaxCards}

Descriptors == [serialNumber : ChassisSerials, controlCards : CardSeqs]

-----------------------------------------------------------------------------
(* Inventories *)

\* New() of the InMemoryEntityManager whose Sign is unimplemented.
InventoryNew ==
  ("123A" :> modularChassis) @@ ("123B" :> modularChassis) @@ ("456" :> fffChassis)

\* New() of the InMemoryEntityManager that signs: one shared entity.
InventoryNewShared ==
  ("123A" :> defaultChassis) @@ ("123B" :> defaultChassis) @@ ("456" :> defaultChassis)

\* Inventories an injected entity manager may hold: open boot mode, cards of
\* two different chassis, a card that is not provisioned.
InventoryOpen ==
  ("123A" :> [id |-> "modular", bootMode |-> Unspecified])
    @@ ("123B" :> [id |-> "modular", bootMode |-> Unspecified])
    @@ ("456" :> fffChassis)

InventorySplit ==
  ("123A" :> [id |-> "modular", bootMode |-> Unspecified])
    @@ ("123B" :> modularChassis)
    @@ ("456" :> [id |-> "fff", bootMode |-> Unspecified])

InventoryPartial ==
  ("123B" :> modularChassis) @@ ("456" :> fffChassis)

InventoryNone == [k \in {} |-> NilChassis]

ProviderInventories ==
  {InventoryNew, InventoryOpen, InventorySplit, InventoryPartial}

-----------------------------------------------------------------------------
(* InMemoryEntityManager.ResolveChassis *)

\* ResolveCards with a card that is not found treated as an error.
ResolveCardsNoSkip(inventory, cards) ==
  IF cards = <<>> \/ Head(cards) \notin DOMAIN inventory
    THEN [chassis |-> NilChassis, err |-> "NotFound"]
    ELSE [chassis |-> inventory[Head(cards)], err |-> "OK"]

RECURSIVE ResolveCards(_, _)
ResolveCards(inventory, cards) ==
  IF cards = <<>>
    THEN [chassis |-> NilChassis, err |-> "NotFound"]
    ELSE IF Head(cards) \notin DOMAIN inventory
      THEN ResolveCards(inventory, Tail(cards))
      ELSE [chassis |-> inventory[Head(cards)], err |-> "OK"]

\* ResolveChassis with the control cards tried before the serial number.
ResolveChassisCardsFirst(inventory, desc) ==
  LET byCard == ResolveCards(inventory, desc.controlCards)
  IN  IF byCard.err = "OK"
        THEN byCard
        ELSE IF desc.serialNumber \in DOMAIN inventory
          THEN [chassis |-> inventory[desc.serialNumber], err |-> "OK"]
          ELSE [chassis |-> NilChassis, err |-> "NotFound"]

\* ResolveChassis falling through to the control cards when the serial
\* number is not in the inventory.
ResolveChassisFallThrough(inventory, desc) ==
  IF desc.serialNumber # "" /\ desc.serialNumber \in DOMAIN inventory
    THEN [chassis |-> inventory[desc.serialNumber], err |-> "OK"]
    ELSE ResolveCards(inventory, desc.controlCards)

ResolveChassis(inventory, desc) ==
  IF desc.serialNumber # ""
    THEN IF desc.serialNumber \notin DOMAIN inventory
      THEN [chassis |-> NilChassis, err |-> "NotFound"]
      ELSE [chassis |-> inventory[desc.serialNumber], err |-> "OK"]
    ELSE ResolveCards(inventory, desc.controlCards)

-----------------------------------------------------------------------------
(* EntityManager implementations *)

\* "EM": the stub of entitymanager.go (every method returns nil).
\* "EMSign": the stub whose Sign signs (entitymanager_test.go, second file).
\* "InMemorySign": the InMemoryEntityManager whose Sign signs.
\* "InMemory": the InMemoryEntityManager whose Sign is unimplemented.
\* "Provider": an injected implementation of the EntityManager interface,
\* resolving as the in-memory manager does, whose fetches, signing and
\* status store answer as the environment decides (io).
StubImpls == {"EM", "EMSign"}

InMemoryImpls == {"InMemorySign", "InMemory"}

EntityManagers ==
  {[impl |-> i, inventory |-> InventoryNone] : i \in StubImpls}
    \cup {[impl |-> "InMemorySign", inventory |-> InventoryNewShared],
          [impl |-> "InMemory", inventory |-> InventoryNew]}
    \cup {[impl |-> "Provider", inventory |-> inv] : inv \in ProviderInventories}

\* Error codes a provider's fetch may answer with ("OK" is a nil error).
FetchCodes == {"OK", "Unimplemented", "NotFound"}

\* What rsa.SignPKCS1v15 does with a key that has no modulus: it
\* dereferences the nil modulus, or (later Go releases) returns an error.
ZeroKeyOutcomes == {"panic", "error"}

\* What the collaborators answer during one call: each fetch's error code,
\* whether the payloads fetched hold a string that is not valid UTF-8, the
\* signing error and the status store's error; zeroKey is what the build's
\* crypto/rsa does with a key without modulus.
Replies(m) ==
  IF m.impl = "Provider"
    THEN [fetch : [FetchKeys -> FetchCodes],
          invalidPayload : BOOLEAN,
          signErr : {"OK", "Unknown"},
          statusErr : {"OK", "Unavailable"},
          zeroKey : ZeroKeyOutcomes]
    ELSE IF m.impl \in InMemoryImpls
      THEN [fetch : {[k \in FetchKeys |-> "Unimplemented"]},
            invalidPayload : {FALSE},
            signErr : {IF m.impl = "InMemory" THEN "Unimplemented" ELSE "OK"},
            statusErr : {"Unimplemented"},
            zeroKey : ZeroKeyOutcomes]
      ELSE [fetch : {[k \in FetchKeys |-> "OK"]},
            invalidPayload : {FALSE},
            signErr : {"OK"},
            statusErr : {"OK"},
            zeroKey : ZeroKeyOutcomes]

NoReplies ==
  [fetch |-> [k \in FetchKeys |-> "OK"], invalidPayload |-> FALSE,
   signErr |-> "OK", statusErr |-> "OK", zeroKey |-> "error"]

\* EM.ResolveChassis: return nil, nil
StubResolveChassis == [chassis |-> NilChassis, err |-> "OK"]

\* EM.GetBootstrapData: return nil, nil
StubGetBootstrapData == [data |-> NilResponse, err |-> "OK"]

\* InMemoryEntityManager.GetBootstrapData: return nil, Unimplemented
InMemoryGetBootstrapData == [data |-> NilResponse, err |-> "Unimplemented"]

\* The provider's fetch for one card: a payload for that card, or an error.
ProviderGetBootstrapData(r, card) ==
  IF r.fetch[card] = "OK"
    THEN [data |-> [isNil |-> FALSE,
                    serialNum |-> IF r.invalidPayload THEN InvalidUTF8 ELSE card],
          err |-> "OK"]
    ELSE [data |-> NilResponse, err |-> r.fetch[card]]

\* em.ResolveChassis
EMResolveChassis(m, desc) ==
  IF m.impl \in StubImpls
    THEN StubResolveChassis
    ELSE ResolveChassis(m.inventory, desc)

\* em.GetBootstrapData
EMGetBootstrapData(m, r, card) ==
  IF m.impl \in StubImpls
    THEN StubGetBootstrapData
    ELSE IF m.impl \in InMemoryImpls
      THEN InMemoryGetBootstrapData
      ELSE ProviderGetBootstrapData(r, card)

\* em.SetStatus: nil for the stubs, Unimplemented for the in-memory
\* managers, the store's answer for a provider.
EMSetStatus(m, r, sreq) == r.statusErr

-----------------------------------------------------------------------------
(* Serialization and signing *)

RECURSIVE MarshalResponses(_)
MarshalResponses(responses) ==
  IF responses = <<>>
    THEN <<>>
    ELSE <<[field |-> "responses", val |-> Head(responses).serialNum]>>
           \o MarshalResponses(Tail(responses))

\* Whether every string field of the message is valid UTF-8.
ValidUTF8(signedResponse) ==
  /\ signedResponse.nonce # InvalidUTF8
  /\ \A i \in 1..Len(signedResponse.responses) :
       signedResponse.responses[i].serialNum # InvalidUTF8

\* proto.Marshal of a BootstrapDataSigned: one entry per response (a nil
\* element encodes as an empty message), then the nonce unless it is empty;
\* an error, which is no gRPC status, if a string field is not valid UTF-8.
Marshal(signedResponse) ==
  IF ValidUTF8(signedResponse)
    THEN [bytes |-> MarshalResponses(signedResponse.responses)
                      \o (IF signedResponse.nonce = ""
                            THEN <<>>
                            ELSE <<[field |-> "nonce", val |-> signedResponse.nonce]>>),
          err |-> "OK"]
    ELSE [bytes |-> <<>>, err |-> "Unknown"]

Sum256(bytes) == [alg |-> "sha256", of |-> bytes]

\* Service.ocPriv of the earliest iteration: &rsa.PrivateKey{}, a key
\* without modulus.
ocPriv == "ocPriv"

\* The key an entity manager of the later interfaces, whose Sign is handed
\* no key, signs with.
emPriv == "emPriv"

\* Private keys a caller of Sign may hand over: the Service's, or one made
\* by rsa.GenerateKey.
PrivateKeys == {ocPriv, "testPriv"}

\* priv.PublicKey
PublicKey(priv) == [publicOf |-> priv]

\* The error value of a call that does not return.
PanicErr == "<panic>"

NoSignature == <<>>

\* rsa.SignPKCS1v15(nil, priv, crypto.SHA256, hashed): no signature from
\* the key without modulus.
SignPKCS1v15(zeroKey, priv, hashed) ==
  IF priv = ocPriv
    THEN [sig |-> NoSignature,
          err |-> IF zeroKey = "panic" THEN PanicErr ELSE "Unknown"]
    ELSE [sig |-> <<[key |-> priv, digest |-> hashed]>>, err |-> "OK"]

\* nil exactly for the signature the matching private key makes of hashed
VerifyPKCS1v15(pub, hashed, sig) ==
  /\ Len(sig) = 1
  /\ PublicKey(sig[1].key) = pub
  /\ sig[1].digest = hashed

\* The steps of Sign after the test for a nil SignedResponse: marshal, hash,
\* sign, set ResponseSignature. Both signing managers return the errors of
\* Marshal and SignPKCS1v15 without a gRPC status (raw, or wrapped with
\* fmt.Errorf).
MarshalAndSign(r, resp, priv) ==
  LET signedResponseBytes == Marshal(resp.signedResponse)
      signed == SignPKCS1v15(r.zeroKey, priv, Sum256(signedResponseBytes.bytes))
  IN  IF signedResponseBytes.err # "OK"
        THEN [resp |-> resp, err |-> signedResponseBytes.err]
      ELSE IF signed.err # "OK"
        THEN [resp |-> resp, err |-> signed.err]
        ELSE [resp |-> [resp EXCEPT !.responseSignature = signed.sig], err |-> "OK"]

\* InMemoryEntityManager.Sign: InvalidArgument on a nil SignedResponse, else
\* sets ResponseSignature.
SignRSA(r, resp, priv) ==
  IF ~resp.hasSignedResponse
    THEN [resp |-> resp, err |-> "InvalidArgument"]
    ELSE MarshalAndSign(r, resp, priv)

\* EM.Sign of the stub that signs: fmt.Errorf("empty signed response"), an
\* error without gRPC status, on a nil SignedResponse.
SignEM(r, resp, priv) ==
  IF ~resp.hasSignedResponse
    THEN [resp |-> resp, err |-> "Unknown"]
    ELSE MarshalAndSign(r, resp, priv)

\* Sign of the EM stub of entitymanager.go: returns nil, touches nothing.
SignStub(resp) == [resp |-> resp, err |-> "OK"]

\* em.Sign with the key it is given (or holds)
SignWith(m, r, resp, priv) ==
  IF m.impl = "EM"
    THEN SignStub(resp)
    ELSE IF m.impl = "EMSign"
      THEN SignEM(r, resp, priv)
    ELSE IF r.signErr # "OK"
      THEN [resp |-> resp, err |-> r.signErr]
      ELSE SignRSA(r, resp, priv)

-----------------------------------------------------------------------------
(* Service *)

NoEnvelope ==
  [hasSignedResponse |-> FALSE,
   signedResponse |-> [responses |-> <<>>, nonce |-> ""],
   serialized |-> <<>>,
   responseSignature |-> NoSignature]

Call(fn, card) == [fn |-> fn, card |-> card]

\* return nil, err
Fail(code, step, chassis, errs, calls) ==
  [outcome |-> "error", code |-> code, step |-> step, hasEnv |-> FALSE,
   env |-> NoEnvelope, chassis |-> chassis, errs |-> errs, calls |-> calls,
   signArg |-> NoEnvelope]

\* a nil-pointer dereference: the handler does not return
Panic(step, calls) ==
  [outcome |-> "panic", code |-> "", step |-> step, hasEnv |-> FALSE,
   env |-> NoEnvelope, chassis |-> NilChassis, errs |-> <<>>, calls |-> calls,
   signArg |-> NoEnvelope]

\* return resp, nil
Respond(resp, chassis, calls) ==
  [outcome |-> "ok", code |-> "OK", step |-> "Respond", hasEnv |-> TRUE,
   env |-> resp, chassis |-> chassis, errs |-> <<>>, calls |-> calls,
   signArg |-> NoEnvelope]

\* The resolver's error code handed to the caller as it is.
ResolveFailurePassThrough(err) == err

\* status.Errorf(codes.InvalidArgument, "failed to resolve chassis ...")
ResolveFailure(err) == "InvalidArgument"

\* The policy check with the nonce test inverted.
PolicyViolationInverted(bootMode, nonce) == bootMode = SecureOnly /\ nonce # ""

\* chassis.GetBootMode() == BOOT_MODE_SECURE && req.GetNonce() == ""
PolicyViolation(bootMode, nonce) == bootMode = SecureOnly /\ nonce = ""

\* Only the first error kept.
ErrlistAddFirstOnly(errs, err) ==
  IF err = "OK" \/ errs # <<>> THEN errs ELSE Append(errs, err)

\* errs.Add(err): a nil error is not added
ErrlistAdd(errs, err) == IF err = "OK" THEN errs ELSE Append(errs, err)

\* errs.Err() != nil
ErrlistErr(errs) == errs # <<>>

\* The code of the errlist.Error returned as is: it is no gRPC status.
AggregateCode == "Unknown"

\* The payload put in front of the list instead of behind it.
PrependResponse(responses, bootdata) == <<bootdata>> \o responses

\* responses = append(responses, bootdata)
AppendResponse(responses, bootdata) == Append(responses, bootdata)

\* One iteration with the error list declared inside the loop: only the
\* last fetch's error survives.
FetchOneFreshErrs(m, r, v, acc) ==
  LET got == EMGetBootstrapData(m, r, v)
  IN  [responses |-> AppendResponse(acc.responses, got.data),
       errs |-> ErrlistAdd(<<>>, got.err),
       calls |-> Append(acc.calls, Call("GetBootstrapData", v)),
       active |-> acc.active]

\* One iteration that fetches nothing once an earlier fetch has failed.
FetchOneSkipAfterError(m, r, v, acc) ==
  IF ErrlistErr(acc.errs)
    THEN acc
    ELSE LET got == EMGetBootstrapData(m, r, v)
         IN  [responses |-> AppendResponse(acc.responses, got.data),
              errs |-> ErrlistAdd(acc.errs, got.err),
              calls |-> Append(acc.calls, Call("GetBootstrapData", v)),
              active |-> acc.active]

\* One iteration of the fetch, for control card v (NilCard: the chassis).
FetchOne(m, r, v, acc) ==
  LET got == EMGetBootstrapData(m, r, v)
  IN  [responses |-> AppendResponse(acc.responses, got.data),
       errs |-> ErrlistAdd(acc.errs, got.err),
       calls |-> Append(acc.calls, Call("GetBootstrapData", v)),
       active |-> acc.active]

\* for _, v := range chassisDesc.GetControlCards() { ... }
RECURSIVE FetchCards(_, _, _, _, _)
FetchCards(m, r, cards, ccSerial, acc) ==
  IF cards = <<>>
    THEN acc
    ELSE LET v == Head(cards)
             marked == [acc EXCEPT !.active = IF v = ccSerial THEN v ELSE @]
         IN  FetchCards(m, r, Tail(cards), ccSerial, FetchOne(m, r, v, marked))

\* fixedChasis := true, never assigned again
fixedChasis == TRUE

\* Signing whether a nonce was given or not.
ShouldSignAlways(nonce) == TRUE

\* if nonce != "" { s.em.Sign(...) }
ShouldSign(nonce) == nonce # ""

\* The tail with the error of Sign dropped: the envelope is returned as it
\* came back.
SignAndRespondIgnoreErr(m, r, resp, priv, nonce, chassis, active, calls) ==
  IF ShouldSign(nonce)
    THEN [Respond(SignWith(m, r, resp, priv).resp, chassis,
                  Append(calls, Call("Sign", active)))
            EXCEPT !.signArg = resp]
    ELSE Respond(resp, chassis, calls)

\* The tail shared by the three handlers: sign if a nonce was given, respond.
\* signArg is the envelope handed to Sign, priv the key handed with it (the
\* manager's own where the interface hands none).
SignAndRespond(m, r, resp, priv, nonce, chassis, active, calls) ==
  IF ShouldSign(nonce)
    THEN LET signed == SignWith(m, r, resp, priv)
             calls2 == Append(calls, Call("Sign", active))
         IN  IF signed.err = PanicErr
               THEN [Panic("ConditionalSign", calls2) EXCEPT !.signArg = resp]
             ELSE IF signed.err # "OK"
               THEN [Fail("Internal", "ConditionalSign", chassis, <<>>, calls2)
                       EXCEPT !.signArg = resp]
               ELSE [Respond(signed.resp, chassis, calls2) EXCEPT !.signArg = resp]
    ELSE Respond(resp, chassis, calls)

\* The handler with the policy check moved behind the fetch loop.
GetBootstrapDataLatePolicy(m, r, q) ==
  LET chassisDesc == q.chassisDescriptor
      resolved == EMResolveChassis(m, chassisDesc)
      calls1 == <<Call("ResolveChassis", NilCard)>>
  IN  IF resolved.err # "OK"
        THEN Fail(ResolveFailure(resolved.err), "Resolve", NilChassis, <<>>, calls1)
      ELSE
        LET start == [responses |-> <<>>, errs |-> <<>>, calls |-> calls1,
                      active |-> NilCard]
            looped == FetchCards(m, r, chassisDesc.controlCards, q.ccSerial, start)
            agg == IF fixedChasis THEN FetchOne(m, r, NilCard, looped) ELSE looped
        IN  IF PolicyViolation(resolved.chassis.bootMode, q.nonce)
              THEN Fail("InvalidArgument", "PolicyCheck", resolved.chassis, <<>>, agg.calls)
            ELSE IF ErrlistErr(agg.errs)
              THEN Fail(AggregateCode, "Aggregate", resolved.chassis, agg.errs, agg.calls)
              ELSE
                LET signedResponse == [responses |-> agg.responses, nonce |-> q.nonce]
                    signedResponseBytes == Marshal(signedResponse)
                    resp == [hasSignedResponse |-> TRUE,
                             signedResponse |-> signedResponse,
                             serialized |-> signedResponseBytes.bytes,
                             responseSignature |-> NoSignature]
                IN  IF signedResponseBytes.err # "OK"
                      THEN Fail(signedResponseBytes.err, "Serialize", resolved.chassis,
                                <<>>, agg.calls)
                      ELSE SignAndRespond(m, r, resp, emPriv, q.nonce, resolved.chassis,
                                          agg.active, agg.calls)

\* Service.GetBootstrapData (service.go, first file)
GetBootstrapData(m, r, q) ==
  LET chassisDesc == q.chassisDescriptor
      resolved == EMResolveChassis(m, chassisDesc)
      calls1 == <<Call("ResolveChassis", NilCard)>>
  IN  IF resolved.err # "OK"
        THEN Fail(ResolveFailure(resolved.err), "Resolve", NilChassis, <<>>, calls1)
      ELSE IF PolicyViolation(resolved.chassis.bootMode, q.nonce)
        THEN Fail("InvalidArgument", "PolicyCheck", resolved.chassis, <<>>, calls1)
      ELSE
        LET start == [responses |-> <<>>, errs |-> <<>>, calls |-> calls1,
                      active |-> NilCard]
            looped == FetchCards(m, r, chassisDesc.controlCards, q.ccSerial, start)
            agg == IF fixedChasis THEN FetchOne(m, r, NilCard, looped) ELSE looped
        IN  IF ErrlistErr(agg.errs)
              THEN Fail(AggregateCode, "Aggregate", resolved.chassis, agg.errs, agg.calls)
              ELSE
                LET signedResponse == [responses |-> agg.responses, nonce |-> q.nonce]
                    signedResponseBytes == Marshal(signedResponse)
                    resp == [hasSignedResponse |-> TRUE,
                             signedResponse |-> signedResponse,
                             serialized |-> signedResponseBytes.bytes,
                             responseSignature |-> NoSignature]
                IN  IF signedResponseBytes.err # "OK"
                      THEN Fail(signedResponseBytes.err, "Serialize", resolved.chassis,
                                <<>>, agg.calls)
                      ELSE SignAndRespond(m, r, resp, emPriv, q.nonce, resolved.chassis,
                                          agg.active, agg.calls)

\* if len(ControlCards) == 0 && SerialNumber == "" (service.go, second file)
InvalidShape(desc) == Len(desc.controlCards) = 0 /\ desc.serialNumber = ""

\* if len(ControlCards) == 0 (the earliest iteration)
InvalidShapeCardsOnly(desc) == Len(desc.controlCards) = 0

\* The steps the two GetBootstrapRequest iterations share, after Validate:
\* lookup is what is handed to ResolveChassis.
BootstrapRequestBody(m, r, q, lookup, priv) ==
  LET resolved == EMResolveChassis(m, lookup)
      calls1 == <<Call("ResolveChassis", NilCard)>>
  IN  IF resolved.err # "OK"
        THEN Fail("InvalidArgument", "Resolve", NilChassis, <<>>, calls1)
      ELSE IF resolved.chassis = NilChassis
        THEN Panic("PolicyCheck", calls1)
      ELSE IF PolicyViolation(resolved.chassis.bootMode, q.nonce)
        THEN Fail("InvalidArgument", "PolicyCheck", resolved.chassis, <<>>, calls1)
      ELSE
        LET start == [responses |-> <<>>, errs |-> <<>>, calls |-> calls1,
                      active |-> NilCard]
            agg == FetchCards(m, r, q.chassisDescriptor.controlCards, NilCard, start)
        IN  IF ErrlistErr(agg.errs)
              THEN Fail(AggregateCode, "Aggregate", resolved.chassis, agg.errs, agg.calls)
              ELSE
                LET resp == [hasSignedResponse |-> TRUE,
                             signedResponse |-> [responses |-> agg.responses, nonce |-> ""],
                             serialized |-> <<>>,
                             responseSignature |-> NoSignature]
                IN  SignAndRespond(m, r, resp, priv, q.nonce, resolved.chassis,
                                   NilCard, agg.calls)

\* Service.GetBootstrapRequest (service.go, second file)
GetBootstrapRequest(m, r, q) ==
  IF ~q.hasDescriptor
    THEN Panic("Validate", <<>>)
  ELSE IF InvalidShape(q.chassisDescriptor)
    THEN Fail("InvalidArgument", "Validate", NilChassis, <<>>, <<>>)
    ELSE BootstrapRequestBody(m, r, q, q.chassisDescriptor, emPriv)

\* Service.GetBootstrapRequest of the earliest iteration: the lookup is an
\* EntityLookup, which carries the serial number and no control cards.
GetBootstrapRequestLookup(m, r, q) ==
  IF ~q.hasDescriptor
    THEN Panic("Validate", <<>>)
  ELSE IF InvalidShapeCardsOnly(q.chassisDescriptor)
    THEN Fail("InvalidArgument", "Validate", NilChassis, <<>>, <<>>)
    ELSE BootstrapRequestBody(m, r, q,
           [serialNumber |-> q.chassisDescriptor.serialNumber, controlCards |-> <<>>],
           ocPriv)

\* ReportStatus with the store's error logged and dropped.
ReportStatusSwallow(m, r, sreq, withResp) ==
  [outcome |-> "ok", code |-> "OK", hasResp |-> withResp,
   forwarded |-> <<sreq>>, calls |-> <<Call("SetStatus", NilCard)>>]

\* Service.ReportStatus: return &EmptyResponse{}, s.em.SetStatus(req); the
\* GetBootstrapRequest iterations return nil in place of the response
\* (withResp = FALSE).
ReportStatus(m, r, sreq, withResp) ==
  LET err == EMSetStatus(m, r, sreq)
  IN  [outcome |-> IF err = "OK" THEN "ok" ELSE "error",
       code |-> err, hasResp |-> withResp,
       forwarded |-> <<sreq>>, calls |-> <<Call("SetStatus", NilCard)>>]

-----------------------------------------------------------------------------
(* Requests *)

\* The serial number of the request's ControlCardState ("" when unset).
CCSerials == {"", "123A"}

\* What the getters give for a nil *ChassisDescriptor.
NoDescriptor == [serialNumber |-> "", controlCards |-> <<>>]

\* ctxDone: the caller's context is already cancelled when the call starts.
\* hasDescriptor: the request's ChassisDescriptor is set (it is nil in a
\* request that carries none).
Requests ==
  {q \in [chassisDescriptor : Descriptors, nonce : Nonces, ccSerial : CCSerials,
          ctxDone : BOOLEAN, hasDescriptor : BOOLEAN] :
     q.hasDescriptor \/ q.chassisDescriptor = NoDescriptor}

\* Envelopes a direct caller of Sign hands over: with or without a signed
\* payload, with or without an earlier signature.
StaleSignature == SignPKCS1v15("error", "stalePriv", Sum256(<<>>)).sig

SignInputs ==
  [hasSignedResponse : BOOLEAN,
   signedResponse : [responses : {<<>>, <<[isNil |-> FALSE, serialNum |-> "123A"]>>},
                     nonce : Nonces],
   serialized : {<<>>},
   responseSignature : {NoSignature, StaleSignature}]

\* A nil SignedResponse has no fields.
WellFormed(resp) ==
  resp.hasSignedResponse \/ resp.signedResponse = NoEnvelope.signedResponse

SignReplies(m) ==
  {r \in Replies(m) :
     /\ r.statusErr = "OK" \/ m.impl # "Provider"
     /\ ~r.invalidPayload
     /\ \A k \in FetchKeys : r.fetch[k] = "OK" \/ m.impl # "Provider"}

StatusRequests == [status : {"SUCCESS", "FAILURE"}, serial : CardSerials]

\* The fetch keys a request makes the handler ask for.
Asked(q) ==
  {q.chassisDescriptor.controlCards[i] :
     i \in 1..Len(q.chassisDescriptor.controlCards)} \cup {NilCard}

\* Replies are told apart only where the handler can ask.
RepliesFor(m, q) ==
  {r \in Replies(m) :
     /\ \A k \in FetchKeys \ Asked(q) : r.fetch[k] = "OK" \/ m.impl # "Provider"
     /\ r.statusErr = "OK" \/ m.impl # "Provider"
     /\ r.zeroKey = "error"}

\* The replies to the earliest iteration, which hands Sign the key without
\* modulus: what the build does with it is told apart as well.
LookupRepliesFor(m, q) ==
  {[r EXCEPT !.zeroKey = z] : r \in RepliesFor(m, q), z \in ZeroKeyOutcomes}

StatusReplies(m) ==
  {r \in Replies(m) :
     /\ r.signErr = "OK" \/ m.impl # "Provider"
     /\ ~r.invalidPayload
     /\ r.zeroKey = "error"
     /\ \A k \in FetchKeys : r.fetch[k] = "OK" \/ m.impl # "Provider"}

-----------------------------------------------------------------------------
Init ==
  /\ em \in EntityManagers
  /\ op = "none"
  /\ req = [serialNumber |-> "", controlCards |-> <<>>]
  /\ io = NoReplies
  /\ res = [chassis |-> NilChassis, err |-> "OK"]

\* A direct call of the entity manager's ResolveChassis.
CallResolveChassis ==
  /\ op = "none"
  /\ em.impl \notin StubImpls
  /\ \E d \in Descriptors :
       /\ req' = d
       /\ res' = ResolveChassis(em.inventory, d)
  /\ op' = "ResolveChassis"
  /\ io' = NoReplies
  /\ UNCHANGED em

CallGetBootstrapData ==
  /\ op = "none"
  /\ \E q \in Requests : \E r \in RepliesFor(em, q) :
       /\ req' = q
       /\ io' = r
       /\ res' = GetBootstrapData(em, r, q)
  /\ op' = "GetBootstrapData"
  /\ UNCHANGED em

CallGetBootstrapRequest ==
  /\ op = "none"
  /\ \E q \in Requests : \E r \in RepliesFor(em, q) :
       /\ q.ccSerial = ""
       /\ req' = q
       /\ io' = r
       /\ res' = GetBootstrapRequest(em, r, q)
  /\ op' = "GetBootstrapRequest"
  /\ UNCHANGED em

CallGetBootstrapRequestLookup ==
  /\ op = "none"
  /\ \E q \in Requests : \E r \in LookupRepliesFor(em, q) :
       /\ q.ccSerial = ""
       /\ req' = q
       /\ io' = r
       /\ res' = GetBootstrapRequestLookup(em, r, q)
  /\ op' = "GetBootstrapRequestLookup"
  /\ UNCHANGED em

CallReportStatus ==
  /\ op = "none"
  /\ \E sreq \in StatusRequests : \E r \in StatusReplies(em) : \E withResp \in BOOLEAN :
       /\ req' = sreq
       /\ io' = r
       /\ res' = ReportStatus(em, r, sreq, withResp)
  /\ op' = "ReportStatus"
  /\ UNCHANGED em

\* A direct call of the entity manager's Sign, as TestSign makes it.
CallSign ==
  /\ op = "none"
  /\ \E resp \in SignInputs : \E priv \in PrivateKeys : \E r \in SignReplies(em) :
       /\ WellFormed(resp)
       /\ req' = [resp |-> resp, priv |-> priv]
       /\ io' = r
       /\ res' = SignWith(em, r, resp, priv)
  /\ op' = "Sign"
  /\ UNCHANGED em

\* The call has returned to its caller; the server waits for the next one.
Return ==
  /\ op # "none"
  /\ op' = "none"
  /\ req' = [serialNumber |-> "", controlCards |-> <<>>]
  /\ io' = NoReplies
  /\ res' = [chassis |-> NilChassis, err |-> "OK"]
  /\ UNCHANGED em

Next ==
  \/ Return
  \/ CallResolveChassis
  \/ CallGetBootstrapRequestLookup
  \/ CallGetBootstrapRequest
  \/ CallGetBootstrapData
  \/ CallReportStatus
  \/ CallSign

Spec == Init /\ [][Next]_vars

-----------------------------------------------------------------------------
(* Concurrent calls *)

(***************************************************************************)
(* The gRPC server runs every call in a goroutine of its own. In           *)
(* SpecConcurrent the calls in flight take their steps (one collaborator   *)
(* call each) in any order: op, req, io and res are indexed by the call,   *)
(* and em is the one entity manager the calls share through Service.em.    *)
(***************************************************************************)

\* The goroutines that may be in flight together.
Goroutines == {"g1", "g2"}

\* The requests in flight together: with and without the serial number of
\* the fixed-form chassis, with and without the two control cards of the
\* modular one, with and without a nonce; the nonce that does not serialize
\* comes with the requests without control cards.
ConcurrentRequests ==
  {q \in Requests :
     /\ ~q.ctxDone
     /\ q.hasDescriptor
     /\ q.nonce # InvalidUTF8 \/ q.chassisDescriptor.controlCards = <<>>
     /\ q.ccSerial = ""
     /\ q.chassisDescriptor.serialNumber \in {"", "456"}
     /\ q.chassisDescriptor.controlCards \in {<<>>, <<"123A", "123B">>}}

\* The provider's answers to them: each fetch succeeds or fails NotFound.
ConcurrentReplies(m, q) ==
  {r \in RepliesFor(m, q) :
     /\ ~r.invalidPayload
     /\ \A k \in FetchKeys : r.fetch[k] # "Unimplemented" \/ m.impl # "Provider"}

Pending == [outcome |-> "pending"]

\* The locals of a handler: the resolved chassis, the cards still to fetch,
\* responses/errs/activeControlCard, and the value returned. found is the
\* entity manager as it was when the call began, and overlapped tells
\* whether another call was in flight during a step of this one.
IdleFrame ==
  [fn |-> "", chassis |-> NilChassis, rest |-> <<>>,
   acc |-> [responses |-> <<>>, errs |-> <<>>, calls |-> <<>>, active |-> NilCard],
   out |-> Pending, found |-> [impl |-> "", inventory |-> InventoryNone],
   overlapped |-> FALSE]

InFlight(g) == op[g] \notin {"idle", "done"}

OthersInFlight(g) == \E h \in Goroutines \ {g} : InFlight(h)

\* The inventory with the entries a lookup hit taken out of it.
InventoryAfterResolveEvict(inventory, desc) ==
  [k \in DOMAIN inventory
        \ ({desc.serialNumber}
             \cup {desc.controlCards[i] : i \in 1..Len(desc.controlCards)})
     |-> inventory[k]]

\* ResolveChassis only reads m.inventory: the map is as it was.
InventoryAfterResolve(inventory, desc) == inventory

InitConcurrent ==
  /\ em \in EntityManagers
  /\ op = [g \in Goroutines |-> "idle"]
  /\ req = [g \in Goroutines |-> [serialNumber |-> "", controlCards |-> <<>>]]
  /\ io = [g \in Goroutines |-> NoReplies]
  /\ res = [g \in Goroutines |-> IdleFrame]

\* A GetBootstrapData call arrives.
BeginGetBootstrapData ==
  \E g \in Goroutines :
    /\ op[g] = "idle"
    /\ \E q \in ConcurrentRequests : \E r \in ConcurrentReplies(em, q) :
         /\ req' = [req EXCEPT ![g] = q]
         /\ io' = [io EXCEPT ![g] = r]
    /\ op' = [op EXCEPT ![g] = "ResolveChassis"]
    /\ res' = [res EXCEPT ![g] = [IdleFrame EXCEPT !.fn = "GetBootstrapData",
                                                   !.found = em,
                                                   !.overlapped = OthersInFlight(g)]]
    /\ UNCHANGED em

\* s.em.ResolveChassis(chassisDesc), its error and the policy check.
StepResolveChassis ==
  \E g \in Goroutines :
    /\ op[g] = "ResolveChassis"
    /\ LET chassisDesc == req[g].chassisDescriptor
           resolved == EMResolveChassis(em, chassisDesc)
           calls1 == <<Call("ResolveChassis", NilCard)>>
           seen == [res[g] EXCEPT !.overlapped = @ \/ OthersInFlight(g)]
       IN  /\ em' = [em EXCEPT !.inventory = InventoryAfterResolve(@, chassisDesc)]
           /\ IF resolved.err # "OK"
                THEN /\ op' = [op EXCEPT ![g] = "done"]
                     /\ res' = [res EXCEPT ![g] =
                          [seen EXCEPT !.out = Fail(ResolveFailure(resolved.err), "Resolve",
                                                    NilChassis, <<>>, calls1)]]
              ELSE IF PolicyViolation(resolved.chassis.bootMode, req[g].nonce)
                THEN /\ op' = [op EXCEPT ![g] = "done"]
                     /\ res' = [res EXCEPT ![g] =
                          [seen EXCEPT !.out = Fail("InvalidArgument", "PolicyCheck",
                                                    resolved.chassis, <<>>, calls1)]]
                ELSE /\ op' = [op EXCEPT ![g] =
                          IF chassisDesc.controlCards = <<>> THEN "FetchFixed" ELSE "Fetch"]
                     /\ res' = [res EXCEPT ![g] =
                          [seen EXCEPT !.chassis = resolved.chassis,
                                       !.rest = chassisDesc.controlCards,
                                       !.acc.calls = calls1]]
    /\ UNCHANGED <<req, io>>

\* One iteration of the loop over the control cards.
StepFetch ==
  \E g \in Goroutines :
    /\ op[g] = "Fetch"
    /\ LET v == Head(res[g].rest)
           marked == [res[g].acc EXCEPT !.active = IF v = req[g].ccSerial THEN v ELSE @]
       IN  /\ res' = [res EXCEPT ![g] =
                [@ EXCEPT !.acc = FetchOne(em, io[g], v, marked),
                          !.rest = Tail(@),
                          !.overlapped = @ \/ OthersInFlight(g)]]
           /\ op' = [op EXCEPT ![g] =
                IF Tail(res[g].rest) = <<>> THEN "FetchFixed" ELSE "Fetch"]
    /\ UNCHANGED <<em, req, io>>

\* The fixed-chassis fetch and the decision on errs.Err().
StepFetchFixed ==
  \E g \in Goroutines :
    /\ op[g] = "FetchFixed"
    /\ LET agg == IF fixedChasis THEN FetchOne(em, io[g], NilCard, res[g].acc)
                                 ELSE res[g].acc
           seen == [res[g] EXCEPT !.acc = agg, !.overlapped = @ \/ OthersInFlight(g)]
       IN  IF ErrlistErr(agg.errs)
             THEN /\ op' = [op EXCEPT ![g] = "done"]
                  /\ res' = [res EXCEPT ![g] =
                       [seen EXCEPT !.out = Fail(AggregateCode, "Aggregate", seen.chassis,
                                                 agg.errs, agg.calls)]]
             ELSE /\ op' = [op EXCEPT ![g] = "Sign"]
                  /\ res' = [res EXCEPT ![g] = seen]
    /\ UNCHANGED <<em, req, io>>

\* The envelope is built and, if a nonce was given, signed; the call returns.
StepSign ==
  \E g \in Goroutines :
    /\ op[g] = "Sign"
    /\ LET signedResponse == [responses |-> res[g].acc.responses, nonce |-> req[g].nonce]
           signedResponseBytes == Marshal(signedResponse)
           resp == [hasSignedResponse |-> TRUE,
                    signedResponse |-> signedResponse,
                    serialized |-> signedResponseBytes.bytes,
                    responseSignature |-> NoSignature]
           f == res[g]
       IN  res' = [res EXCEPT ![g] =
             [f EXCEPT !.out =
                         IF signedResponseBytes.err # "OK"
                           THEN Fail(signedResponseBytes.err, "Serialize", f.chassis,
                                     <<>>, f.acc.calls)
                           ELSE SignAndRespond(em, io[g], resp, emPriv, req[g].nonce,
                                               f.chassis, f.acc.active, f.acc.calls),
                       !.overlapped = @ \/ OthersInFlight(g)]]
    /\ op' = [op EXCEPT ![g] = "done"]
    /\ UNCHANGED <<em, req, io>>

\* A ReportStatus call arrives.
BeginReportStatus ==
  \E g \in Goroutines :
    /\ op[g] = "idle"
    /\ \E sreq \in StatusRequests : \E r \in StatusReplies(em) :
         /\ req' = [req EXCEPT ![g] = sreq]
         /\ io' = [io EXCEPT ![g] = r]
    /\ op' = [op EXCEPT ![g] = "SetStatus"]
    /\ res' = [res EXCEPT ![g] = [IdleFrame EXCEPT !.fn = "ReportStatus",
                                                   !.found = em,
                                                   !.overlapped = OthersInFlight(g)]]
    /\ UNCHANGED em

\* return &bpb.EmptyResponse{}, s.em.SetStatus(req)
StepSetStatus ==
  \E g \in Goroutines :
    /\ op[g] = "SetStatus"
    /\ res' = [res EXCEPT ![g] =
         [@ EXCEPT !.out = ReportStatus(em, io[g], req[g], TRUE),
                   !.overlapped = @ \/ OthersInFlight(g)]]
    /\ op' = [op EXCEPT ![g] = "done"]
    /\ UNCHANGED <<em, req, io>>

\* The caller has the outcome; the goroutine ends.
Finish ==
  \E g \in Goroutines :
    /\ op[g] = "done"
    /\ op' = [op EXCEPT ![g] = "idle"]
    /\ req' = [req EXCEPT ![g] = [serialNumber |-> "", controlCards |-> <<>>]]
    /\ io' = [io EXCEPT ![g] = NoReplies]
    /\ res' = [res EXCEPT ![g] = IdleFrame]
    /\ UNCHANGED em

NextConcurrent ==
  \/ BeginGetBootstrapData
  \/ StepResolveChassis
  \/ StepFetch
  \/ StepFetchFixed
  \/ StepSign
  \/ BeginReportStatus
  \/ StepSetStatus
  \/ Finish

SpecConcurrent == InitConcurrent /\ [][NextConcurrent]_vars

-----------------------------------------------------------------------------
(* Properties *)

BootstrapOps ==
  {"GetBootstrapData", "GetBootstrapRequest", "GetBootstrapRequestLookup"}

IsBootstrapCall == op \in BootstrapOps

Cards == req.chassisDescriptor.controlCards

\* What the handler that ran hands to ResolveChassis.
LookupOf ==
  IF op = "GetBootstrapRequestLookup"
    THEN [serialNumber |-> req.chassisDescriptor.serialNumber, controlCards |-> <<>>]
    ELSE req.chassisDescriptor

Failed(code) == res.outcome = "error" /\ res.code = code /\ ~res.hasEnv

\* The cards of the fetches the handler issued, in order.
FetchedCards ==
  LET fetches == SelectSeq(res.calls, LAMBDA c : c.fn = "GetBootstrapData")
  IN  [i \in 1..Len(fetches) |-> fetches[i].card]

SomeFetchFailed ==
  \E i \in 1..Len(FetchedCards) :
    EMGetBootstrapData(em, io, FetchedCards[i]).err # "OK"

ResolvesSecureOnly ==
  LET r == EMResolveChassis(em, LookupOf)
  IN  r.err = "OK" /\ r.chassis # NilChassis /\ r.chassis.bootMode = SecureOnly

\* C1: a request whose chassis resolves to a SECURE_ONLY entity and whose
\* nonce is empty fails with InvalidArgument and returns no envelope,
\* whatever its control cards and whatever the provider answers.
C1_SecureOnlyEmptyNonceRejected ==
  (IsBootstrapCall /\ ResolvesSecureOnly /\ req.nonce = "")
    => Failed("InvalidArgument")

C1_Witness ==
  /\ op = "GetBootstrapData"
  /\ ResolvesSecureOnly
  /\ req.nonce = ""
  /\ Len(Cards) = 2
  /\ \A k \in FetchKeys : io.fetch[k] = "OK"
  /\ res.step = "PolicyCheck"
  /\ Failed("InvalidArgument")

\* C2: in every success envelope the response signature is non-empty if and
\* only if the request carried a non-empty nonce, for every entity manager
\* of the repository whose Sign returns no error.
C2_SignatureIffNonce ==
  (IsBootstrapCall /\ res.hasEnv)
    => ((res.env.responseSignature # NoSignature) <=> (req.nonce # ""))

\* C3: if at least one fetch (of a control card or of the fixed chassis)
\* returns an error, the call returns an error and no envelope, even when
\* every other fetch succeeded.
C3_AnyFetchErrorFails ==
  (IsBootstrapCall /\ SomeFetchFailed)
    => (res.outcome = "error" /\ ~res.hasEnv)

C3_Witness ==
  /\ op = "GetBootstrapData"
  /\ Cards = <<"123A", "123B">>
  /\ io.fetch["123A"] # "OK"
  /\ io.fetch["123B"] = "OK"
  /\ io.fetch[NilCard] = "OK"
  /\ Len(FetchedCards) = 3
  /\ res.outcome = "error"
  /\ ~res.hasEnv

\* C4: a request with no control cards and an empty serial number fails
\* with InvalidArgument, and a request with a serial number or at least
\* one control card is never rejected by the Validate step.
C4_ValidateShape ==
  IsBootstrapCall
    => /\ InvalidShape(req.chassisDescriptor) => Failed("InvalidArgument")
       /\ ~InvalidShape(req.chassisDescriptor) => res.step # "Validate"

\* C5: whenever ResolveChassis fails with NotFound the call returns an
\* error of kind InvalidArgument, and no call returns an error of kind
\* NotFound.
C5_NotFoundIsInvalidArgument ==
  IsBootstrapCall
    => /\ (res.calls # <<>> /\ EMResolveChassis(em, LookupOf).err = "NotFound")
            => Failed("InvalidArgument")
       /\ res.code # "NotFound"

C5_Witness ==
  /\ op = "GetBootstrapData"
  /\ req.chassisDescriptor.serialNumber = "123"
  /\ res.calls = <<Call("ResolveChassis", NilCard)>>
  /\ EMResolveChassis(em, LookupOf).err = "NotFound"
  /\ Failed("InvalidArgument")

\* C6: a descriptor whose serial number is non-empty and in the inventory
\* resolves to the entity stored under that serial number, whatever control
\* cards it also lists.
C6_SerialNumberTakesPrecedence ==
  (/\ op = "ResolveChassis"
   /\ req.serialNumber # ""
   /\ req.serialNumber \in DOMAIN em.inventory)
    => (res.err = "OK" /\ res.chassis = em.inventory[req.serialNumber])

C6_Witness ==
  /\ op = "ResolveChassis"
  /\ req.serialNumber = "456"
  /\ req.controlCards = <<"123A">>
  /\ {"123A", "456"} \subseteq DOMAIN em.inventory
  /\ em.inventory["123A"] # em.inventory["456"]
  /\ res.err = "OK"
  /\ res.chassis = em.inventory["456"]

\* C7: a descriptor whose serial number is non-empty and not in the
\* inventory fails with NotFound and does not fall through to its control
\* cards, even when one of them is in the inventory.
C7_UnknownSerialNumberNotFound ==
  (/\ op = "ResolveChassis"
   /\ req.serialNumber # ""
   /\ req.serialNumber \notin DOMAIN em.inventory)
    => (res.err = "NotFound" /\ res.chassis = NilChassis)

C7_Witness ==
  /\ op = "ResolveChassis"
  /\ req.serialNumber = "123"
  /\ "123" \notin DOMAIN em.inventory
  /\ \E i \in 1..Len(req.controlCards) : req.controlCards[i] \in DOMAIN em.inventory
  /\ res.err = "NotFound"

\* The positions of the control cards that are in the inventory.
FoundCards == {i \in 1..Len(req.controlCards) : req.controlCards[i] \in DOMAIN em.inventory}

FirstFound == CHOOSE i \in FoundCards : \A j \in FoundCards : i <= j

\* C8: a descriptor with an empty serial number resolves to the entity of
\* the first control card, in the order supplied, that is in the inventory,
\* and fails with NotFound exactly when no control card is.
C8_FirstControlCardFound ==
  (op = "ResolveChassis" /\ req.serialNumber = "")
    => /\ (res.err = "NotFound") <=> (FoundCards = {})
       /\ FoundCards # {}
            => /\ res.err = "OK"
               /\ res.chassis = em.inventory[req.controlCards[FirstFound]]
       /\ res.err \in {"OK", "NotFound"}

C8_Witness ==
  /\ op = "ResolveChassis"
  /\ req.serialNumber = ""
  /\ req.controlCards = <<"123A", "123B">>
  /\ FoundCards = {2}
  /\ res.err = "OK"
  /\ res.chassis = em.inventory["123B"]

\* C9: on success the i-th response of the envelope is the payload the
\* provider returned for the i-th control card of the request.
C9_ResponsesInRequestOrder ==
  (IsBootstrapCall /\ res.hasEnv)
    => \A i \in 1..Len(Cards) :
         /\ i <= Len(res.env.signedResponse.responses)
         /\ res.env.signedResponse.responses[i]
              = EMGetBootstrapData(em, io, Cards[i]).data

C9_Witness ==
  /\ op = "GetBootstrapData"
  /\ res.hasEnv
  /\ Cards = <<"123A", "123B">>
  /\ req.nonce # ""
  /\ res.env.signedResponse.responses[1] = [isNil |-> FALSE, serialNum |-> "123A"]
  /\ res.env.signedResponse.responses[2] = [isNil |-> FALSE, serialNum |-> "123B"]

\* C10: GetBootstrapData issues exactly one fetch per control card of the
\* request, and the synthetic chassis fetch only when the request has no
\* control cards; a success envelope for n >= 1 control cards holds exactly
\* n responses, and one for no control cards holds exactly 1.
C10_OneFetchPerCard ==
  (op = "GetBootstrapData" /\ res.step \in {"Aggregate", "ConditionalSign", "Respond"})
    => /\ FetchedCards = (IF Len(Cards) = 0 THEN <<NilCard>> ELSE Cards)
       /\ res.hasEnv
            => Len(res.env.signedResponse.responses)
                 = (IF Len(Cards) = 0 THEN 1 ELSE Len(Cards))

SignCalled == \E i \in 1..Len(res.calls) : res.calls[i].fn = "Sign"

\* The payloads the provider returned for the fetches issued, in order.
FetchedPayloads ==
  [i \in 1..Len(FetchedCards) |-> EMGetBootstrapData(em, io, FetchedCards[i]).data]

\* The key the handler that ran hands to Sign (the manager's own where the
\* interface hands none).
KeyHanded == IF op = "GetBootstrapRequestLookup" THEN ocPriv ELSE emPriv

\* C11: in every envelope GetBootstrapData passes to Sign or returns, the
\* signed payload is exactly the aggregated responses plus the nonce of the
\* request: its nonce field equals the request's nonce and the signature
\* covers this structure and nothing else.
C11_SignedPayloadIsResponsesAndNonce ==
  IsBootstrapCall
    => /\ res.hasEnv
            => /\ res.env.signedResponse
                    = [responses |-> FetchedPayloads, nonce |-> req.nonce]
               /\ res.env.responseSignature # NoSignature
                    => VerifyPKCS1v15(PublicKey(KeyHanded),
                         Sum256(Marshal([responses |-> FetchedPayloads,
                                         nonce |-> req.nonce]).bytes),
                         res.env.responseSignature)
       /\ SignCalled
            => res.signArg.signedResponse
                 = [responses |-> FetchedPayloads, nonce |-> req.nonce]

\* A signed payload that is unset (nil) or set with nothing in it.
EmptyPayload(resp) ==
  \/ ~resp.hasSignedResponse
  \/ resp.signedResponse = [responses |-> <<>>, nonce |-> ""]

\* C12: Sign called on an envelope whose signed payload is empty or unset
\* returns an error and produces no signature bytes: ResponseSignature is
\* left as it was before the call.
C12_SignEmptyPayloadFails ==
  (op = "Sign" /\ EmptyPayload(req.resp))
    => /\ res.err # "OK"
       /\ res.resp.responseSignature = req.resp.responseSignature
       /\ res.resp = req.resp

\* C13: for every envelope with a signed payload and every private key, a
\* successful Sign sets ResponseSignature to a value the reference
\* verification accepts with the matching public key over the digest of the
\* serialized signed payload, which is the payload the envelope carries.
C13_SignThenVerify ==
  (op = "Sign" /\ req.resp.hasSignedResponse /\ res.err = "OK")
    => /\ res.resp.signedResponse = req.resp.signedResponse
       /\ VerifyPKCS1v15(PublicKey(req.priv),
            Sum256(Marshal(res.resp.signedResponse).bytes),
            res.resp.responseSignature)

\* What Sign answered for the envelope the handler handed to it.
SignErr == SignWith(em, io, res.signArg, KeyHanded).err

\* C14: signing fails closed: whenever the nonce is non-empty and Sign
\* returns an error the call fails with Internal and returns no envelope,
\* and no envelope is returned for a non-empty nonce unless Sign was invoked
\* and returned success.
C14_SigningFailsClosed ==
  IsBootstrapCall
    => /\ (SignCalled /\ SignErr \notin {"OK", PanicErr}) => Failed("Internal")
       /\ (res.hasEnv /\ req.nonce # "") => (SignCalled /\ SignErr = "OK")
       /\ SignCalled => req.nonce # ""

C14_Witness ==
  /\ op = "GetBootstrapData"
  /\ req.nonce # ""
  /\ Len(Cards) = 2
  /\ SignCalled
  /\ io.signErr = "Unknown"
  /\ res.step = "ConditionalSign"
  /\ Failed("Internal")

\* C15: a request to a SECURE_ONLY chassis that is refused for its empty
\* nonce succeeds when sent with a non-empty nonce, its cards resolving;
\* descriptor {serialNumber "456"} against the default inventory with nonce
\* "abc123" returns a signed success envelope.
C15_NonceMakesSecureRequestSucceed ==
  (/\ op = "GetBootstrapData"
   /\ ResolvesSecureOnly
   /\ req.nonce = "abc123"
   /\ GetBootstrapData(em, io, [req EXCEPT !.nonce = ""]).step = "PolicyCheck")
    => (res.hasEnv /\ res.env.responseSignature # NoSignature)

\* C16: ReportStatus calls SetStatus exactly once with the request it
\* received, unmodified, and returns exactly the error SetStatus returned.
C16_ReportStatusForwards ==
  op = "ReportStatus"
    => /\ res.calls = <<Call("SetStatus", NilCard)>>
       /\ res.forwarded = <<req>>
       /\ res.code = io.statusErr
       /\ (res.outcome = "ok") <=> (io.statusErr = "OK")

C16_Witness ==
  /\ op = "ReportStatus"
  /\ em.impl = "Provider"
  /\ io.statusErr = "Unavailable"
  /\ res.outcome = "error"
  /\ res.code = "Unavailable"
  /\ res.forwarded = <<req>>

\* C17: if the caller's context is already cancelled when GetBootstrapData
\* runs, the fetches are abandoned and a cancellation-kind error is
\* returned rather than a success envelope.
C17_CancelledContextAborts ==
  (op = "GetBootstrapData" /\ req.ctxDone)
    => /\ res.outcome = "error"
       /\ res.code \in {"Canceled", "DeadlineExceeded"}
       /\ ~res.hasEnv
       /\ FetchedCards = <<>>

\* The errors of the fetches that failed, in the order they were issued.
FailedFetchErrs ==
  LET all == [i \in 1..Len(FetchedCards) |->
                EMGetBootstrapData(em, io, FetchedCards[i]).err]
  IN  SelectSeq(all, LAMBDA e : e # "OK")

\* C18: when a request fails in the Aggregate step the error returned holds
\* every fetch error that occurred, one for each fetch that failed, not
\* only the first.
C18_AggregateErrorHoldsEveryFetchError ==
  IsBootstrapCall
    => /\ res.step = "Aggregate" => (res.outcome = "error" /\ res.errs = FailedFetchErrs)
       /\ SomeFetchFailed => res.step = "Aggregate"

C18_Witness ==
  /\ op = "GetBootstrapData"
  /\ Cards = <<"123A", "123B">>
  /\ io.fetch["123A"] = "Unimplemented"
  /\ io.fetch["123B"] = "NotFound"
  /\ io.fetch[NilCard] = "OK"
  /\ res.step = "Aggregate"
  /\ res.errs = <<"Unimplemented", "NotFound">>

\* C19: every error GetBootstrapData returns carries a kind of the
\* taxonomy: InvalidArgument for validation, resolution and policy failures,
\* Internal for aggregate fetch, serialization and signing failures.
C19_ErrorKindsFollowTaxonomy ==
  (op = "GetBootstrapData" /\ res.outcome = "error")
    => /\ res.step \in {"Validate", "Resolve", "PolicyCheck"}
            => res.code = "InvalidArgument"
       /\ res.step \in {"Aggregate", "Serialize", "ConditionalSign"}
            => res.code = "Internal"

OnlyUnimplemented(errs) ==
  errs # <<>> /\ \A i \in 1..Len(errs) : errs[i] = "Unimplemented"

NoneUnimplemented(errs) ==
  errs # <<>> /\ \A i \in 1..Len(errs) : errs[i] # "Unimplemented"

\* C20: the error GetBootstrapData returns when the fetches fail with
\* Unimplemented, and the error ReportStatus returns when SetStatus is
\* Unimplemented, differ in kind from the errors returned for a genuine
\* fetch or store failure.
C20_UnimplementedDistinguishable ==
  /\ (op = "GetBootstrapData" /\ res.step = "Aggregate" /\ OnlyUnimplemented(res.errs))
       => \A m \in EntityManagers : \A r \in RepliesFor(m, req) :
            LET genuine == GetBootstrapData(m, r, req)
            IN  (genuine.step = "Aggregate" /\ NoneUnimplemented(genuine.errs))
                  => genuine.code # res.code
  /\ (op = "ReportStatus" /\ io.statusErr = "Unimplemented")
       => ReportStatus(em, [io EXCEPT !.statusErr = "Unavailable"], req, TRUE).code
            # res.code

CountCalls(calls, fn) == Len(SelectSeq(calls, LAMBDA c : c.fn = fn))

PastPolicyCheck == res.step \in {"Aggregate", "ConditionalSign", "Respond"}

\* C21: once a request has passed the policy check, GetBootstrapData has
\* fetched every control card of the request, in order, whichever of the
\* fetches failed, and the number of fetches it issued is the number it
\* issues for the same request under every other combination of fetch
\* failures.
C21_EveryCardFetched ==
  (op = "GetBootstrapData" /\ PastPolicyCheck)
    => /\ Len(FetchedCards) >= Len(Cards)
       /\ SubSeq(FetchedCards, 1, Len(Cards)) = Cards
       /\ \A r \in RepliesFor(em, req) :
            CountCalls(GetBootstrapData(em, r, req).calls, "GetBootstrapData")
              = Len(FetchedCards)

C21_Witness ==
  /\ op = "GetBootstrapData"
  /\ Cards = <<"123A", "123B">>
  /\ io.fetch["123A"] = "NotFound"
  /\ io.fetch["123B"] = "OK"
  /\ res.step = "Aggregate"
  /\ SubSeq(FetchedCards, 1, 2) = Cards

\* C22: within one request Sign is invoked at most once, only as the last
\* call, after every fetch of the request has returned, only if no fetch
\* returned an error, and only if the nonce is non-empty.
C22_SignOnceAfterAggregation ==
  IsBootstrapCall
    => /\ CountCalls(res.calls, "Sign") <= 1
       /\ SignCalled
            => /\ res.calls[Len(res.calls)].fn = "Sign"
               /\ Len(FetchedCards) >= Len(Cards)
               /\ SubSeq(FetchedCards, 1, Len(Cards)) = Cards
               /\ ~SomeFetchFailed
               /\ req.nonce # ""

C22_Witness ==
  /\ op = "GetBootstrapData"
  /\ Cards = <<"123A", "123B">>
  /\ req.nonce = "abc123"
  /\ CountCalls(res.calls, "Sign") = 1
  /\ CountCalls(res.calls, "GetBootstrapData") = 3
  /\ res.calls[Len(res.calls)].fn = "Sign"

\* C23: the calls of a request are made in the order of the steps
\* (ResolveChassis, then the fetches, then Sign) and a failed step ends the
\* request: one that fails in Validate makes no call, and one that fails
\* resolution or the secure-boot policy check has called ResolveChassis
\* exactly once and neither fetched bootstrap data nor signed.
C23_StepsShortCircuit ==
  IsBootstrapCall
    => /\ res.step = "Validate" => res.calls = <<>>
       /\ res.step \in {"Resolve", "PolicyCheck"}
            => res.calls = <<Call("ResolveChassis", NilCard)>>
       /\ res.step = "Resolve" <=> (res.calls # <<>> /\ EMResolveChassis(em, LookupOf).err # "OK")
       /\ res.calls # <<>>
            => /\ res.calls[1].fn = "ResolveChassis"
               /\ CountCalls(res.calls, "ResolveChassis") = 1
               /\ \A i, j \in 1..Len(res.calls) :
                    (res.calls[i].fn = "Sign" /\ res.calls[j].fn = "GetBootstrapData")
                      => j < i

C23_Witness ==
  /\ op = "GetBootstrapData"
  /\ Cards = <<"123A", "123B">>
  /\ res.step = "PolicyCheck"
  /\ res.outcome = "error"
  /\ res.calls = <<Call("ResolveChassis", NilCard)>>

\* The outcome the call of goroutine g has when it runs alone against the
\* entity manager it found.
AloneOutcome(g) ==
  IF res[g].fn = "ReportStatus"
    THEN ReportStatus(res[g].found, io[g], req[g], TRUE)
    ELSE GetBootstrapData(res[g].found, io[g], req[g])

\* C24: under every interleaving of concurrent GetBootstrapData and
\* ReportStatus calls, the outcome of each call equals the outcome it has
\* when run alone, and the shared entity manager (its inventory and the
\* entities in it) is, while a call runs, as the call found it.
C24_RequestsIndependent ==
  \A g \in Goroutines :
    /\ op[g] # "idle" => em = res[g].found
    /\ op[g] = "done" => res[g].out = AloneOutcome(g)

C24_Witness ==
  /\ op["g1"] = "done" /\ op["g2"] = "done"
  /\ res["g1"].overlapped /\ res["g2"].overlapped
  /\ res["g1"].fn = "GetBootstrapData" /\ res["g2"].fn = "GetBootstrapData"
  /\ req["g1"].chassisDescriptor = req["g2"].chassisDescriptor
  /\ req["g1"].chassisDescriptor.controlCards = <<"123A", "123B">>
  /\ res["g1"].out.hasEnv
  /\ res["g1"].out.env.responseSignature # NoSignature
  /\ res["g2"].out.step = "Aggregate"

====
